---------------------------- MODULE Spec2Model ----------------------------
(***************************************************************************)
(* A model of app.py, the mailing-package generator: scraping of the CSV   *)
(* rows (process_scrape_csv), image resolution (download_image,            *)
(* save_data_uri_as_file, embed_image_as_data_uri), package generation     *)
(* (process_csv) and the preview (generate_preview), driven by the three   *)
(* buttons of the page.                                                    *)
(*                                                                         *)
(* Strings are sequences of tokens.  Every character the code splits or    *)
(* compares on (":", "/", ";", ",", ".", "?") is a token of its own, and   *)
(* "http" and "data" are tokens, so that startswith, split, basename and   *)
(* splitext act on token boundaries.  Base64 payloads are sequences of     *)
(* one-character tokens.                                                   *)
(***************************************************************************)
EXTENDS Integers, Sequences, FiniteSets, TLC

(***************************************************************************)
(* Bounds of the model.                                                    *)
(***************************************************************************)
\* rows of the uploaded CSV
MaxRows == 2
\* button presses (scrape, preview, generate) in one session
MaxOps == 3
\* failures of the environment (network, disk, render) in one session
MaxFaults == 1
\* distinct image references found on the scraped pages
MaxWebImages == 1
\* bytes of an inline payload in the round trip of a data URI
MaxPayload == 1

(***************************************************************************)
(* Strings.                                                                *)
(***************************************************************************)
StartsWith(s, p) == Len(s) >= Len(p) /\ SubSeq(s, 1, Len(p)) = p

Concat(s, t) == s \o t

\* the first position of token t in s, 0 when there is none
IndexOf(s, t) ==
    IF \E i \in 1..Len(s) : s[i] = t
    THEN CHOOSE i \in 1..Len(s) : s[i] = t /\ \A j \in 1..(i - 1) : s[j] # t
    ELSE 0

\* the last position of token t in s, 0 when there is none
LastIndexOf(s, t) ==
    IF \E i \in 1..Len(s) : s[i] = t
    THEN CHOOSE i \in 1..Len(s) : s[i] = t /\ \A j \in (i + 1)..Len(s) : s[j] # t
    ELSE 0

\* str.split(t): the pieces of s between the occurrences of t
RECURSIVE Split(_, _)
Split(s, t) ==
    LET i == IndexOf(s, t)
    IN  IF i = 0 THEN <<s>>
        ELSE <<SubSeq(s, 1, i - 1)>> \o Split(SubSeq(s, i + 1, Len(s)), t)

\* str.split(t, 1): at most two pieces
SplitOnce(s, t) ==
    LET i == IndexOf(s, t)
    IN  IF i = 0 THEN <<s>>
        ELSE <<SubSeq(s, 1, i - 1), SubSeq(s, i + 1, Len(s))>>

\* str.lower() on the tokens of the model
LowerTok(t) ==
    CASE t = "PNG" -> "png"
      [] t = "SVG" -> "svg"
      [] t = "Webp" -> "webp"
      [] OTHER -> t

Lower(s) == [i \in 1..Len(s) |-> LowerTok(s[i])]

\* str(n) for a natural number
Digits == <<"0", "1", "2", "3", "4", "5", "6", "7", "8", "9">>

RECURSIVE Str(_)
Str(n) == IF n < 10 THEN <<Digits[n + 1]>> ELSE Str(n \div 10) \o <<Digits[(n % 10) + 1]>>

\* os.path.basename: what follows the last "/"
Basename(s) == SubSeq(s, LastIndexOf(s, "/") + 1, Len(s))

\* os.path.splitext(p)[1][1:]: what follows the last "." of the basename; a name
\* that only starts with dots has no extension
SplitextExt(p) ==
    LET b == Basename(p)
        i == LastIndexOf(b, ".")
    IN  IF i = 0 \/ \A j \in 1..i : b[j] = "." THEN <<>>
        ELSE SubSeq(b, i + 1, Len(b))

(***************************************************************************)
(* Base64 (base64.b64encode, base64.b64decode).                            *)
(***************************************************************************)
B64Alphabet ==
    << "A", "B", "C", "D", "E", "F", "G", "H", "I", "J", "K", "L", "M",
       "N", "O", "P", "Q", "R", "S", "T", "U", "V", "W", "X", "Y", "Z",
       "a", "b", "c", "d", "e", "f", "g", "h", "i", "j", "k", "l", "m",
       "n", "o", "p", "q", "r", "s", "t", "u", "v", "w", "x", "y", "z",
       "0", "1", "2", "3", "4", "5", "6", "7", "8", "9", "+", "/" >>

B64Chars == {B64Alphabet[i] : i \in 1..64}

B64Char(n) == B64Alphabet[n + 1]

B64Val(c) == (CHOOSE i \in 1..64 : B64Alphabet[i] = c) - 1

RECURSIVE b64encode(_)
b64encode(b) ==
    IF Len(b) = 0 THEN <<>>
    ELSE IF Len(b) = 1 THEN
        <<B64Char(b[1] \div 4), B64Char((b[1] % 4) * 16), "=", "=">>
    ELSE IF Len(b) = 2 THEN
        <<B64Char(b[1] \div 4), B64Char((b[1] % 4) * 16 + b[2] \div 16),
          B64Char((b[2] % 16) * 4), "=">>
    ELSE
        <<B64Char(b[1] \div 4), B64Char((b[1] % 4) * 16 + b[2] \div 16),
          B64Char((b[2] % 16) * 4 + b[3] \div 64), B64Char(b[3] % 64)>>
        \o b64encode(SubSeq(b, 4, Len(b)))

\* the characters b64decode keeps: it drops what is not of the alphabet
RECURSIVE B64Filter(_)
B64Filter(s) ==
    IF Len(s) = 0 THEN <<>>
    ELSE (IF s[1] \in B64Chars \cup {"="} THEN <<s[1]>> ELSE <<>>)
         \o B64Filter(SubSeq(s, 2, Len(s)))

\* one group of four characters: [ok, bytes]
B64Group(g) ==
    IF \A i \in 1..4 : g[i] \in B64Chars THEN
        [ok |-> TRUE,
         bytes |-> << B64Val(g[1]) * 4 + B64Val(g[2]) \div 16,
                      (B64Val(g[2]) % 16) * 16 + B64Val(g[3]) \div 4,
                      (B64Val(g[3]) % 4) * 64 + B64Val(g[4]) >>]
    ELSE IF g[1] \in B64Chars /\ g[2] \in B64Chars /\ g[3] \in B64Chars /\ g[4] = "=" THEN
        [ok |-> TRUE,
         bytes |-> << B64Val(g[1]) * 4 + B64Val(g[2]) \div 16,
                      (B64Val(g[2]) % 16) * 16 + B64Val(g[3]) \div 4 >>]
    ELSE IF g[1] \in B64Chars /\ g[2] \in B64Chars /\ g[3] = "=" /\ g[4] = "=" THEN
        [ok |-> TRUE, bytes |-> << B64Val(g[1]) * 4 + B64Val(g[2]) \div 16 >>]
    ELSE [ok |-> FALSE, bytes |-> <<>>]

RECURSIVE B64Groups(_)
B64Groups(s) ==
    IF Len(s) = 0 THEN [ok |-> TRUE, bytes |-> <<>>]
    ELSE LET g == B64Group(SubSeq(s, 1, 4))
             r == B64Groups(SubSeq(s, 5, Len(s)))
         IN  IF g.ok /\ r.ok /\ (Len(g.bytes) = 3 \/ Len(s) = 4)
             THEN [ok |-> TRUE, bytes |-> g.bytes \o r.bytes]
             ELSE [ok |-> FALSE, bytes |-> <<>>]

\* base64.b64decode(s): [ok |-> FALSE] stands for binascii.Error
b64decode(s) ==
    LET f == B64Filter(s)
    IN  IF Len(f) % 4 # 0 THEN [ok |-> FALSE, bytes |-> <<>>] ELSE B64Groups(f)


(***************************************************************************)
(* The file system: fs.files maps the path of a file to its content,       *)
(* fs.dirs is the set of directories.  A path is a sequence of names, a    *)
(* name a string.  None is the path no file has (Python's None).           *)
(***************************************************************************)
None == <<>>

IsNone(x) == Len(x) = 0

NoRow == ("_" :> <<>>)

Bytes(b) == [kind |-> "bytes", row |-> NoRow, data |-> b]

OUTPUT_FOLDER == << <<"generated_mails">> >>

INDEX_HTML == <<"index", ".", "html">>

\* os.path.join(folder, name) for a name without "/": an empty name gives the
\* folder itself ("folder/")
Join(folder, name) == IF name = <<>> THEN folder ELSE Append(folder, name)

\* os.path.join(folder, rel) for a relative path that may hold "/"
JoinRel(folder, rel) == folder \o Split(rel, "/")

Prefixes(p) == {SubSeq(p, 1, k) : k \in 1..Len(p)}

IsUnder(p, folder) == Len(p) > Len(folder) /\ SubSeq(p, 1, Len(folder)) = folder

\* os.path.exists
Exists(fs, p) == p \in DOMAIN fs.files \/ p \in fs.dirs

\* open(p, "w") / open(p, "wb") can create or truncate the file
CanOpenForWrite(fs, p) ==
    /\ p \notin fs.dirs
    /\ Len(p) > 1
    /\ SubSeq(p, 1, Len(p) - 1) \in fs.dirs

Put(fs, p, content) == [fs EXCEPT !.files = (p :> content) @@ fs.files]

\* os.makedirs(p, exist_ok=True) raises when a component of p is a file
MakedirsRaises(fs, p) == \E q \in Prefixes(p) : q \in DOMAIN fs.files

Makedirs(fs, p) == [fs EXCEPT !.dirs = fs.dirs \cup Prefixes(p)]

(***************************************************************************)
(* Image references.                                                       *)
(***************************************************************************)
HTTP == <<"http">>

DATA == <<"data", ":">>

\* requests.get accepts the value as a URL: an http:// or https:// address
IsHttpUrl(v) ==
    \/ StartsWith(v, <<"http", ":", "/", "/">>)
    \/ StartsWith(v, <<"http", "s", ":", "/", "/">>)

\* the bytes a remote image holds
ImageBytes == <<65>>

(***************************************************************************)
(* download_image(image_url, dest_folder).  fetch_ok is the outcome of     *)
(* requests.get and raise_for_status for a URL requests accepts; any other *)
(* value makes requests.get raise before it connects.                      *)
(* Returns [fs, ret]: ret is the local path, the value itself for a data   *)
(* URI, or None.                                                           *)
(***************************************************************************)
download_image(fs, image_url, dest_folder, fetch_ok) ==
    IF image_url = <<>> THEN [fs |-> fs, ret |-> None]
    ELSE IF StartsWith(image_url, DATA) THEN [fs |-> fs, ret |-> image_url]
    ELSE IF ~(IsHttpUrl(image_url) /\ fetch_ok) THEN [fs |-> fs, ret |-> None]
    ELSE LET filename == Basename(Split(image_url, "?")[1])
             local_path == Join(dest_folder, filename)
         IN  IF CanOpenForWrite(fs, local_path)
             THEN [fs |-> Put(fs, local_path, Bytes(ImageBytes)), ret |-> local_path]
             ELSE [fs |-> fs, ret |-> None]

(***************************************************************************)
(* save_data_uri_as_file(data_uri, dest_folder, default_filename).         *)
(* Returns [fs, ret]: ret is the path written, or None.                    *)
(***************************************************************************)
MimeExtension(mime_type) == Split(mime_type, "/")[2]

save_data_uri_as_file(fs, data_uri, dest_folder, default_filename) ==
    IF ~StartsWith(data_uri, DATA) THEN [fs |-> fs, ret |-> None]
    ELSE LET parts == SplitOnce(data_uri, ",")
         IN  IF Len(parts) # 2 THEN [fs |-> fs, ret |-> None]
             ELSE LET header == parts[1]
                      b64data == parts[2]
                      mime_part == Split(header, ";")[1]
                      colon == Split(mime_part, ":")
                 IN  IF Len(colon) < 2 THEN [fs |-> fs, ret |-> None]
                     ELSE LET mime_type == colon[2]
                          IN  IF Len(Split(mime_type, "/")) < 2
                              THEN [fs |-> fs, ret |-> None]
                              ELSE LET ext == MimeExtension(mime_type)
                                       filename == default_filename \o <<".">> \o ext
                                       dest_path == Join(dest_folder, filename)
                                       decoded == b64decode(b64data)
                                   IN  IF ~CanOpenForWrite(fs, dest_path)
                                       THEN [fs |-> fs, ret |-> None]
                                       ELSE IF ~decoded.ok
                                       THEN [fs |-> Put(fs, dest_path, Bytes(<<>>)),
                                             ret |-> None]
                                       ELSE [fs |-> Put(fs, dest_path, Bytes(decoded.bytes)),
                                             ret |-> dest_path]

(***************************************************************************)
(* embed_image_as_data_uri(image_path).  Returns [raised, ret]:            *)
(* os.path.exists(None) raises TypeError, outside the function's try.      *)
(***************************************************************************)
ExtensionMime(ext) ==
    IF ext = <<"svg">> THEN <<"image", "/", "svg", "+", "xml">>
    ELSE <<"image", "/">> \o ext

embed_image_as_data_uri(fs, image_path) ==
    IF IsNone(image_path) THEN [raised |-> TRUE, ret |-> <<>>]
    ELSE IF ~Exists(fs, image_path) THEN [raised |-> FALSE, ret |-> <<>>]
    ELSE LET ext == Lower(SplitextExt(image_path[Len(image_path)]))
             mime == ExtensionMime(ext)
         IN  IF image_path \notin DOMAIN fs.files
             THEN [raised |-> FALSE, ret |-> <<>>]
             ELSE [raised |-> FALSE,
                   ret |-> DATA \o mime \o <<";", "base64", ",">>
                           \o b64encode(fs.files[image_path].data)]


(***************************************************************************)
(* Rows and scraping.                                                      *)
(***************************************************************************)
Set(row, key, value) == (key :> value) @@ row

Has(row, key) == key \in DOMAIN row

\* lead_text[:150]
LeadLimit == 150

Truncate(s, n) == SubSeq(s, 1, IF Len(s) < n THEN Len(s) ELSE n)

EmptyPage == [title |-> <<>>, img |-> <<>>, lead |-> <<>>]

(***************************************************************************)
(* scrap_page(url): the triple found on the page, the empty triple on any  *)
(* failure.  page is what the network returns: [ok, title, img, lead_text].*)
(***************************************************************************)
scrap_page(page) ==
    IF ~page.ok THEN EmptyPage
    ELSE [title |-> page.title, img |-> page.img,
          lead |-> Truncate(page.lead_text, LeadLimit)]

\* one URL column of process_scrape_csv: [raised, row]
ScrapeColumn(row, url, title, img, lead, page) ==
    IF Has(row, url) /\ row[url] # <<>> THEN
        LET data == scrap_page(page)
        IN  [raised |-> FALSE,
             row |-> Set(Set(Set(row, title, data.title), img, data.img), lead, data.lead)]
    ELSE IF ~Has(row, url) THEN
        \* row["url1"] = row["url1"] raises KeyError
        [raised |-> TRUE, row |-> row]
    ELSE
        [raised |-> FALSE,
         row |-> Set(Set(Set(row, title, <<>>), img, <<>>), lead, <<>>)]

ScrapeRow(row, pages) ==
    LET r1 == ScrapeColumn(row, "url1", "title1", "img1", "lead1", pages.url1)
    IN  IF r1.raised THEN r1
        ELSE ScrapeColumn(r1.row, "url2", "title2", "img2", "lead2", pages.url2)

(***************************************************************************)
(* process_scrape_csv(file_bytes): [raised, rows].  rows are the rows of   *)
(* the CSV as csv.DictReader gives them, pages[i] what the network returns *)
(* for the URLs of row i.                                                  *)
(***************************************************************************)
process_scrape_csv(rows, pages) ==
    LET done == [i \in 1..Len(rows) |-> ScrapeRow(rows[i], pages[i])]
    IN  IF \E i \in 1..Len(rows) : done[i].raised
        THEN [raised |-> TRUE, rows |-> <<>>]
        ELSE [raised |-> FALSE, rows |-> [i \in 1..Len(rows) |-> done[i].row]]

(***************************************************************************)
(* The template: TEMPLATE_TEMP_FOLDER holds index.html (the template body) *)
(* and the template's assets.                                              *)
(***************************************************************************)
TemplateBody == [kind |-> "template", row |-> NoRow, data |-> <<>>]

TemplateFiles ==
    (INDEX_HTML :> TemplateBody) @@ (<<"logo", ".", "png">> :> Bytes(<<1>>))

\* template_obj.render(**row)
Render(row) == [kind |-> "rendered", row |-> row, data |-> <<>>]

\* shutil.copytree(TEMPLATE_TEMP_FOLDER, folder, dirs_exist_ok=True): a file
\* whose destination is a directory is not copied and the others are, and then
\* copytree raises
CopytreeRaises(fs, folder) ==
    \E n \in DOMAIN TemplateFiles : Join(folder, n) \in fs.dirs

Copytree(fs, folder) ==
    LET copied == {n \in DOMAIN TemplateFiles : Join(folder, n) \notin fs.dirs}
        paths == {Join(folder, n) : n \in copied}
        new == [p \in paths |-> TemplateFiles[p[Len(p)]]]
    IN  [fs EXCEPT !.files = new @@ fs.files]

\* a variant that keeps an index.html the folder already has
WriteEntryFileKeepExisting(fs, folder, rendered_html) ==
    IF Join(folder, INDEX_HTML) \in DOMAIN fs.files THEN fs
    ELSE Put(fs, Join(folder, INDEX_HTML), rendered_html)

\* open(output_html_path, "w").write(rendered_html)
WriteEntryFile(fs, folder, rendered_html) == Put(fs, Join(folder, INDEX_HTML), rendered_html)

(***************************************************************************)
(* process_csv: the body of the loop for one row.                          *)
(***************************************************************************)
ImageCols == <<"img1", "img2">>

FetchFault(col) == IF col = "img1" THEN "fetch_img1" ELSE "fetch_img2"

\* a variant that numbers the rows from 0
PackageIdentifierZeroBased(row, row_index, naming) ==
    IF naming # "" /\ Has(row, naming) /\ row[naming] # <<>>
    THEN row[naming]
    ELSE Str(row_index - 1)

\* the package identifier of a row
PackageIdentifier(row, row_index, naming) ==
    IF naming # "" /\ Has(row, naming) /\ row[naming] # <<>>
    THEN row[naming]
    ELSE Str(row_index)

PackageFolder(id) == JoinRel(OUTPUT_FOLDER, id)

\* zip_output_for_folder: the name of the archive
ZipName(id) == id \o <<".zip">>

\* one image column of a row of process_csv.  st = [fs, row, fetched, created,
\* resolved, hit]; F is the set of steps the environment fails
\* r is what download_image or save_data_uri_as_file returned for the column;
\* fetched: the columns requests.get went to the network for; created: the files
\* the resolution of a column wrote, as <<column, path>>
Replaced(st, col, r, fetched, hit) ==
    [fs |-> r.fs,
     row |-> IF ~IsNone(r.ret) THEN Set(st.row, col, r.ret[Len(r.ret)]) ELSE st.row,
     fetched |-> st.fetched \cup fetched,
     created |-> st.created
                 \cup {<<col, q>> : q \in (DOMAIN r.fs.files \ DOMAIN st.fs.files)
                                          \cup (IF IsNone(r.ret) THEN {} ELSE {r.ret})},
     resolved |-> st.resolved \cup (IF IsNone(r.ret) THEN {} ELSE {col}),
     hit |-> st.hit \cup hit]

ResolveColumn(st, col, folder, F) ==
    IF ~(Has(st.row, col) /\ st.row[col] # <<>>) THEN st
    ELSE IF StartsWith(st.row[col], HTTP) THEN
        Replaced(st, col,
                 download_image(st.fs, st.row[col], folder, FetchFault(col) \notin F),
                 IF IsHttpUrl(st.row[col]) THEN {col} ELSE {},
                 IF FetchFault(col) \in F /\ IsHttpUrl(st.row[col])
                 THEN {FetchFault(col)} ELSE {})
    ELSE IF StartsWith(st.row[col], DATA) THEN
        Replaced(st, col, save_data_uri_as_file(st.fs, st.row[col], folder, <<col>>),
                 {}, {})
    ELSE st

RECURSIVE ResolveColumns(_, _, _, _)
ResolveColumns(st, cols, folder, F) ==
    IF Len(cols) = 0 THEN st
    ELSE ResolveColumns(ResolveColumn(st, cols[1], folder, F),
                        SubSeq(cols, 2, Len(cols)), folder, F)


\* the steps of one row the environment can fail
RowFaults == {"makedirs", "fetch_img1", "fetch_img2", "render", "copy", "write", "zip"}

(***************************************************************************)
(* One pass of the loop of process_csv over a row.  Returns the row and    *)
(* the file system as the pass leaves them, and                            *)
(*   raised:  an exception left process_csv (os.makedirs and               *)
(*            zip_output_for_folder are outside every try),                *)
(*   outcome: "archived", or the step that ended the pass,                 *)
(*   hit:     the failures of F that happened.                             *)
(***************************************************************************)
\* the pass from the copy of the template on: fs2 is the folder after copytree
WriteAndArchive(got, fs2, rendered_html, F) ==
    IF ~CanOpenForWrite(fs2, Join(got.folder, INDEX_HTML))
    THEN [got EXCEPT !.outcome = "write", !.fs = fs2]
    ELSE IF "write" \in F
    THEN [got EXCEPT !.outcome = "write", !.fs = fs2, !.hit = got.hit \cup {"write"}]
    ELSE IF "zip" \in F
    THEN [got EXCEPT !.raised = TRUE, !.outcome = "zip",
                     !.fs = WriteEntryFile(fs2, got.folder, rendered_html),
                     !.hit = got.hit \cup {"zip"}]
    ELSE [got EXCEPT !.fs = WriteEntryFile(fs2, got.folder, rendered_html)]

\* the pass from the render on: got holds the row and the folder after resolution
RenderAndPackage(got, F) ==
    IF "render" \in F
    THEN [got EXCEPT !.outcome = "render", !.hit = got.hit \cup {"render"}]
    ELSE IF "copy" \in F
    THEN [got EXCEPT !.outcome = "copy", !.hit = got.hit \cup {"copy"}]
    ELSE IF CopytreeRaises(got.fs, got.folder)
    THEN [got EXCEPT !.outcome = "copy", !.fs = Copytree(got.fs, got.folder)]
    ELSE WriteAndArchive(got, Copytree(got.fs, got.folder), Render(got.row), F)

Resolved(base, st) ==
    [base EXCEPT !.fs = st.fs, !.row = st.row, !.fetched = st.fetched,
                 !.created = st.created, !.resolved = st.resolved, !.hit = st.hit]

ResolveAndPackage(base, F) ==
    IF MakedirsRaises(base.fs, base.folder)
    THEN [base EXCEPT !.raised = TRUE, !.outcome = "makedirs"]
    ELSE IF "makedirs" \in F
    THEN [base EXCEPT !.raised = TRUE, !.outcome = "makedirs", !.hit = {"makedirs"}]
    ELSE RenderAndPackage(
            Resolved(base,
                     ResolveColumns([fs |-> Makedirs(base.fs, base.folder),
                                     row |-> base.row, fetched |-> {}, created |-> {},
                                     resolved |-> {}, hit |-> {}],
                                    ImageCols, base.folder, F)),
            F)

ProcessRow(row, index, naming, fs0, F) ==
    ResolveAndPackage(
        [raised |-> FALSE, outcome |-> "archived", fs |-> fs0, row |-> row,
         id |-> PackageIdentifier(row, index, naming),
         folder |-> PackageFolder(PackageIdentifier(row, index, naming)),
         fetched |-> {}, created |-> {}, resolved |-> {}, hit |-> {}],
        F)

(***************************************************************************)
(* generate_preview.                                                       *)
(***************************************************************************)
PREVIEW_FOLDER == Append(OUTPUT_FOLDER, <<"preview">>)

PreviewFaults == {"fetch_img1", "fetch_img2", "render"}

\* one image column of the preview row.  st = [fs, row, raised, hit]
Embedded(st, col, r, e, hit) ==
    IF e.raised
    THEN [fs |-> r.fs, row |-> st.row, raised |-> TRUE, hit |-> st.hit \cup hit]
    ELSE [fs |-> r.fs,
          row |-> Set(st.row, col, IF e.ret # <<>> THEN e.ret ELSE st.row[col]),
          raised |-> FALSE, hit |-> st.hit \cup hit]

Downloaded(st, col, r, hit) == Embedded(st, col, r, embed_image_as_data_uri(r.fs, r.ret), hit)

PreviewColumn(st, col, F) ==
    IF st.raised \/ ~(Has(st.row, col) /\ st.row[col] # <<>>) THEN st
    ELSE IF StartsWith(st.row[col], HTTP) THEN
        Downloaded(st, col,
                   download_image(st.fs, st.row[col], PREVIEW_FOLDER,
                                  FetchFault(col) \notin F),
                   IF FetchFault(col) \in F /\ IsHttpUrl(st.row[col])
                   THEN {FetchFault(col)} ELSE {})
    ELSE st

RECURSIVE PreviewColumns(_, _, _)
PreviewColumns(st, cols, F) ==
    IF Len(cols) = 0 THEN st
    ELSE PreviewColumns(PreviewColumn(st, cols[1], F), SubSeq(cols, 2, Len(cols)), F)

\* inline_base_images on one src attribute
InlineSrc(fs, src, base_folder) ==
    IF StartsWith(src, DATA) THEN src
    ELSE IF src = <<>> THEN src
    ELSE IF Exists(fs, JoinRel(base_folder, src))
    THEN embed_image_as_data_uri(fs, JoinRel(base_folder, src)).ret
    ELSE src

\* inline_base_images(html, base_folder): the src attributes of the document are
\* the image columns of the row it was rendered from
inline_base_images(fs, html, base_folder) ==
    [html EXCEPT !.row = [c \in DOMAIN html.row |->
        IF \E i \in 1..Len(ImageCols) : ImageCols[i] = c
        THEN InlineSrc(fs, html.row[c], base_folder)
        ELSE html.row[c]]]

NoDocument == [kind |-> "none", row |-> NoRow, data |-> <<>>]

\* the preview from the render on: st is the row and the folder after resolution
RenderPreview(st, tpl_ok, F) ==
    IF st.raised
    THEN [raised |-> TRUE, ret |-> NoDocument, row |-> st.row, fs |-> st.fs, hit |-> st.hit]
    ELSE IF ~tpl_ok
    THEN [raised |-> FALSE, ret |-> NoDocument, row |-> st.row, fs |-> st.fs, hit |-> st.hit]
    ELSE IF "render" \in F
    THEN [raised |-> FALSE, ret |-> NoDocument, row |-> st.row, fs |-> st.fs,
          hit |-> st.hit \cup {"render"}]
    ELSE [raised |-> FALSE,
          ret |-> inline_base_images(st.fs, Render(st.row), PREVIEW_FOLDER),
          row |-> st.row, fs |-> st.fs, hit |-> st.hit]

\* generate_preview: [raised, ret, row, fs, hit]; ret = NoDocument is None
generate_preview(preview_row, fs0, tpl_ok, F) ==
    IF MakedirsRaises(fs0, PREVIEW_FOLDER)
    THEN [raised |-> TRUE, ret |-> NoDocument, row |-> preview_row, fs |-> fs0, hit |-> {}]
    ELSE RenderPreview(
            PreviewColumns([fs |-> Makedirs(fs0, PREVIEW_FOLDER), row |-> preview_row,
                            raised |-> FALSE, hit |-> {}], ImageCols, F),
            tpl_ok, F)

(***************************************************************************)
(* The inputs of the model.                                                *)
(***************************************************************************)
ArticleUrl == <<"http", "s", ":", "/", "/", "example", ".", "com", "/", "a">>

\* image references a scraped page can carry
UrlPng == <<"http", ":", "/", "/", "h", "/", "a", ".", "png">>
UrlIndex == <<"http", "s", ":", "/", "/", "h", "/", "index", ".", "html", "?", "v">>
UrlFolder == <<"http", ":", "/", "/", "h", "/", "img", "/">>
DataWebp == <<"data", ":", "image", "/", "webp", ";", "base64", ",", "Q", "Q", "=", "=">>
DataNoBase64 == <<"data", ":", "image", "/", "png", ",", "A", "A", "A", "A">>
DataBadPayload == <<"data", ":", "image", "/", "gif", ";", "base64", ",", "h", "e", "l", "l", "o">>
DataNoComma == <<"data", ":", "foo">>
Literal == <<"banner", ".", "png">>
HttpLiteral == <<"http", "-banner", ".", "png">>

ImageValues ==
    {UrlPng, UrlIndex, UrlFolder, DataWebp, DataNoBase64, DataBadPayload, DataNoComma,
     Literal, HttpLiteral}

\* values of the ID column
PlainIds == {<<"42">>}
NamingIds == {<<>>, <<"1">>, <<"2">>, <<"a">>, <<"a", "/", "index", ".", "html">>}

\* the columns the naming select box offers in the model
NamingCols == {"ID"}

RowsOver(headers, idValues, urlValues) ==
    {r \in [headers -> idValues \cup urlValues] :
        /\ r["ID"] \in idValues
        /\ \A h \in headers \ {"ID"} : r[h] \in urlValues}

TablesOver(headerSets, idValues, urlValues) ==
    UNION {UNION {{[headers |-> hs, rows |-> rows] :
                      rows \in [1..n -> RowsOver(hs, idValues, urlValues)]} :
                  n \in 0..MaxRows} : hs \in headerSets}

WebsOver(values) == {w \in SUBSET values : Cardinality(w) \in 1..MaxWebImages}

\* what the network returns for a page
Pages(w) ==
    {[ok |-> FALSE, title |-> <<>>, img |-> <<>>, lead_text |-> <<>>]}
    \cup {[ok |-> TRUE, title |-> <<"T">>, img |-> v, lead_text |-> <<"L">>] : v \in w}

(***************************************************************************)
(* The round trip of an inline image: inputs.                              *)
(***************************************************************************)
RoundTripMimes ==
    { <<"image", "/", "webp">>, <<"image", "/", "png">>, <<"image", "/", "PNG">>,
      <<"image", "/", "svg", "+", "xml">>,
      <<"image", "/", "vnd", ".", "microsoft", ".", "icon">>,
      <<"image", "/", "x-icon">>, <<"text", "/", "plain">>,
      <<"application", "/", "pdf">> }

PayloadBytes == {0, 65, 255}

Payloads == UNION {[1..n -> PayloadBytes] : n \in 0..MaxPayload}

DataUri(mime, payload) == DATA \o mime \o <<";", "base64", ",">> \o b64encode(payload)

RoundTripFolder == Append(OUTPUT_FOLDER, <<"1">>)

(***************************************************************************)
(* State.                                                                  *)
(***************************************************************************)
VARIABLES
    csv,              \* the uploaded CSV: [headers, rows]
    template_ok,      \* the template body compiles (Template(template_code))
    web,              \* the image references the scraped pages carry
    scraped_data,     \* st.session_state.scraped_data, <<>> when not set
    naming_variable,  \* the naming select box, "" for the default numbering
    fs,               \* the files and directories under the working directory
    zips,             \* the archives written
    pc,               \* "idle", or "rows" inside the loop of process_csv
    row_index,        \* the row process_csv is at
    zip_files,        \* the list process_csv builds
    ids,              \* the package identifiers of the rows of this run
    outcomes,         \* how the pass of each row of this run ended
    run_naming,       \* the naming_variable argument of this run of process_csv
    pkg,              \* the last pass of the loop of process_csv
    resolved,         \* per row, the image columns that hold a resolved file name
    preview_html,     \* what generate_preview returned last
    last,             \* the last handler and how it ended
    ops,              \* button presses so far
    faults,           \* failures of the environment so far
    rt                \* the round trip of an inline image

vars == <<csv, template_ok, web, scraped_data, naming_variable, fs, zips, pc, row_index,
          zip_files, ids, outcomes, run_naming, pkg, resolved, preview_html, last, ops, faults, rt>>

session == <<csv, template_ok, web, scraped_data, naming_variable, fs, zips, pc, row_index,
             zip_files, ids, outcomes, run_naming, pkg, resolved, preview_html, last, ops, faults>>

EmptyFs == [files |-> <<>>, dirs |-> {OUTPUT_FOLDER}]

NoPkg ==
    [index |-> 0, id |-> <<>>, folder |-> <<>>, before |-> NoRow, after |-> NoRow,
     fetched |-> {}, created |-> {}, resolved |-> {}, outcome |-> "none",
     listing |-> {}, entry |-> NoDocument]

RtOff == [pc |-> "off", uri |-> <<>>, mime |-> <<>>, payload |-> <<>>, name |-> <<>>,
          fs |-> EmptyFs, path |-> None, out |-> <<>>]

\* the state after the script has run once with the CSV and the template uploaded
InitSession(tables, webs, tplOks) ==
    /\ csv \in tables
    /\ template_ok \in tplOks
    /\ web \in webs
    /\ scraped_data = <<>>
    /\ naming_variable = ""
    /\ fs = EmptyFs
    /\ zips = {}
    /\ pc = "idle"
    /\ row_index = 0
    /\ zip_files = <<>>
    /\ ids = <<>>
    /\ outcomes = <<>>
    /\ run_naming = ""
    /\ pkg = NoPkg
    /\ resolved = <<>>
    /\ preview_html = NoDocument
    /\ last = [op |-> "init", result |-> "ok"]
    /\ ops = 0
    /\ faults = 0

AllHeaders == {"ID", "url1", "url2"}

Init ==
    /\ InitSession(TablesOver({AllHeaders}, PlainIds, {ArticleUrl}),
                   WebsOver(ImageValues), BOOLEAN)
    /\ rt = RtOff

InitNaming ==
    /\ InitSession(TablesOver({AllHeaders}, NamingIds, {ArticleUrl}),
                   {{UrlPng}}, {TRUE})
    /\ rt = RtOff

InitEnrich ==
    /\ InitSession(TablesOver({{"ID"} \cup u : u \in SUBSET {"url1", "url2"}},
                              {<<"42">>}, {<<>>, ArticleUrl}),
                   {{UrlPng}}, {TRUE})
    /\ rt = RtOff

InitRoundTrip ==
    /\ InitSession({[headers |-> AllHeaders, rows |-> <<>>]}, {{}}, {TRUE})
    /\ \E mime \in RoundTripMimes, payload \in Payloads, name \in {"img1", "img2"} :
          rt = [RtOff EXCEPT !.pc = "start", !.uri = DataUri(mime, payload),
                             !.mime = mime, !.payload = payload, !.name = <<name>>,
                             !.fs = Makedirs(EmptyFs, RoundTripFolder)]


(***************************************************************************)
(* The handlers.                                                           *)
(***************************************************************************)
\* the naming select box is changed
SelectNaming ==
    /\ pc = "idle"
    /\ \E n \in {""} \cup (csv.headers \cap NamingCols) :
          /\ n # naming_variable
          /\ naming_variable' = n
    /\ UNCHANGED <<csv, template_ok, web, scraped_data, fs, zips, pc, row_index, zip_files,
                   ids, outcomes, run_naming, pkg, resolved, preview_html, last, ops, faults, rt>>

\* "Przetworz dane": process_scrape_csv, and its result kept in the session
Scrape ==
    /\ pc = "idle"
    /\ ops < MaxOps
    /\ ops' = ops + 1
    /\ \E pages \in [1..Len(csv.rows) -> [url1 : Pages(web), url2 : Pages(web)]] :
          \E data_rows \in {process_scrape_csv(csv.rows, pages)} :
              IF data_rows.raised THEN
                  /\ last' = [op |-> "scrape", result |-> "raised"]
                  /\ UNCHANGED <<scraped_data, resolved>>
              ELSE IF Len(data_rows.rows) = 0 THEN
                  /\ last' = [op |-> "scrape", result |-> "empty"]
                  /\ UNCHANGED <<scraped_data, resolved>>
              ELSE
                  /\ last' = [op |-> "scrape", result |-> "ok"]
                  /\ scraped_data' = data_rows.rows
                  /\ resolved' = [i \in 1..Len(data_rows.rows) |-> {}]
    /\ UNCHANGED <<csv, template_ok, web, naming_variable, fs, zips, pc, row_index,
                   zip_files, ids, outcomes, run_naming, pkg, preview_html, faults, rt>>

\* "Generuj Podglad paczki": generate_preview on the first row
Preview ==
    /\ pc = "idle"
    /\ ops < MaxOps
    /\ ops' = ops + 1
    /\ IF Len(scraped_data) = 0 /\ Len(csv.rows) = 0 THEN
          \* "Brak danych w CSV."
          /\ last' = [op |-> "preview", result |-> "none"]
          /\ preview_html' = NoDocument
          /\ UNCHANGED <<scraped_data, fs, faults>>
       ELSE
          \E F \in SUBSET PreviewFaults :
             /\ Cardinality(F) <= MaxFaults - faults
             /\ \E r \in {generate_preview(IF Len(scraped_data) > 0 THEN scraped_data[1]
                                              ELSE csv.rows[1], fs, template_ok, F)} :
                    /\ r.hit = F
                    /\ faults' = faults + Cardinality(F)
                    /\ fs' = r.fs
                    /\ scraped_data' = IF Len(scraped_data) > 0
                                       THEN [scraped_data EXCEPT ![1] = r.row]
                                       ELSE scraped_data
                    /\ preview_html' = r.ret
                    /\ last' = [op |-> "preview",
                                result |-> IF r.raised THEN "raised"
                                           ELSE IF r.ret = NoDocument THEN "none"
                                           ELSE "html"]
    /\ UNCHANGED <<csv, template_ok, web, naming_variable, zips, pc, row_index, zip_files,
                   ids, outcomes, run_naming, pkg, resolved, rt>>

\* "Generuj wszystkie paczki": the handler up to the loop of process_csv
GenerateAllStart ==
    /\ pc = "idle"
    /\ ops < MaxOps
    /\ ops' = ops + 1
    /\ zip_files' = <<>>
    /\ ids' = <<>>
    /\ outcomes' = <<>>
    /\ run_naming' = naming_variable
    /\ IF Len(scraped_data) = 0 THEN
          \* "Nie przetworzono danych (scrap)."
          /\ last' = [op |-> "generate", result |-> "no_data"]
          /\ UNCHANGED <<pc, row_index>>
       ELSE IF ~template_ok THEN
          \* Template(template_code) raises TemplateSyntaxError
          /\ last' = [op |-> "generate", result |-> "raised"]
          /\ UNCHANGED <<pc, row_index>>
       ELSE
          /\ last' = [op |-> "generate", result |-> "running"]
          /\ pc' = "rows"
          /\ row_index' = 1
    /\ UNCHANGED <<csv, template_ok, web, scraped_data, naming_variable, fs, zips, pkg,
                   resolved, preview_html, faults, rt>>

\* one pass of the loop of process_csv
ProcessNextRow ==
    /\ pc = "rows"
    /\ row_index <= Len(scraped_data)
    /\ \E F \in SUBSET RowFaults :
          /\ Cardinality(F) <= MaxFaults - faults
          /\ \E r \in {ProcessRow(scraped_data[row_index], row_index, run_naming, fs, F)},
                archived \in BOOLEAN :
                 /\ archived = (~r.raised /\ r.outcome = "archived")
                 /\ r.hit = F
                 /\ faults' = faults + Cardinality(F)
                 /\ fs' = r.fs
                 /\ scraped_data' = [scraped_data EXCEPT ![row_index] = r.row]
                 /\ resolved' = [resolved EXCEPT ![row_index] = @ \cup r.resolved]
                 /\ ids' = Append(ids, r.id)
                 /\ outcomes' = Append(outcomes, r.outcome)
                 /\ pkg' = [index |-> row_index, id |-> r.id, folder |-> r.folder,
                            before |-> scraped_data[row_index], after |-> r.row,
                            fetched |-> r.fetched, created |-> r.created,
                            resolved |-> resolved[row_index] \cup r.resolved,
                            outcome |-> r.outcome,
                            listing |-> IF archived
                                        THEN {p \in DOMAIN r.fs.files : IsUnder(p, r.folder)}
                                        ELSE {},
                            entry |-> IF archived
                                      THEN r.fs.files[Join(r.folder, INDEX_HTML)]
                                      ELSE NoDocument]
                 /\ zip_files' = IF archived THEN Append(zip_files, ZipName(r.id))
                                 ELSE zip_files
                 /\ zips' = IF archived THEN zips \cup {ZipName(r.id)} ELSE zips
                 /\ IF r.raised
                    THEN /\ pc' = "idle"
                         /\ last' = [op |-> "generate", result |-> "raised"]
                         /\ UNCHANGED row_index
                    ELSE /\ row_index' = row_index + 1
                         /\ UNCHANGED <<pc, last>>
    /\ UNCHANGED <<csv, template_ok, web, naming_variable, run_naming, preview_html, ops,
                   rt>>

\* process_csv returns, and the handler archives the whole output folder
GenerateAllFinish ==
    /\ pc = "rows"
    /\ row_index > Len(scraped_data)
    /\ pc' = "idle"
    /\ last' = [op |-> "generate", result |-> "returned"]
    /\ zips' = IF Len(zip_files) > 0
               THEN zips \cup {<<"wszystkie_paczki", ".zip">>}
               ELSE zips
    /\ UNCHANGED <<csv, template_ok, web, scraped_data, naming_variable, fs, row_index,
                   zip_files, ids, outcomes, run_naming, pkg, resolved, preview_html, ops,
                   faults, rt>>

Next ==
    \/ SelectNaming
    \/ Scrape
    \/ Preview
    \/ GenerateAllStart
    \/ ProcessNextRow
    \/ GenerateAllFinish

Spec == Init /\ [][Next]_vars

SpecNaming == InitNaming /\ [][Next]_vars

SpecEnrich == InitEnrich /\ [][Next]_vars

(***************************************************************************)
(* The round trip of an inline image: save_data_uri_as_file, then          *)
(* embed_image_as_data_uri on the file it wrote.                           *)
(***************************************************************************)
RoundTripSave ==
    /\ rt.pc = "start"
    /\ LET r == save_data_uri_as_file(rt.fs, rt.uri, RoundTripFolder, rt.name)
       IN  rt' = [rt EXCEPT !.pc = IF IsNone(r.ret) THEN "failed" ELSE "saved",
                            !.fs = r.fs, !.path = r.ret]
    /\ UNCHANGED session

RoundTripEmbed ==
    /\ rt.pc = "saved"
    /\ LET e == embed_image_as_data_uri(rt.fs, rt.path)
       IN  rt' = [rt EXCEPT !.pc = "done", !.out = e.ret]
    /\ UNCHANGED session

NextRoundTrip == RoundTripSave \/ RoundTripEmbed

SpecRoundTrip == InitRoundTrip /\ [][NextRoundTrip]_vars


(***************************************************************************)
(* The claims.                                                             *)
(***************************************************************************)
DerivedKeys == {"title1", "img1", "lead1", "title2", "img2", "lead2"}

EnrichedRowOk(in, out) ==
    /\ DOMAIN in \cup DerivedKeys \subseteq DOMAIN out
    /\ \A h \in DOMAIN in : out[h] = in[h]
    /\ (~Has(in, "url1") \/ in["url1"] = <<>>) =>
          out["title1"] = <<>> /\ out["img1"] = <<>> /\ out["lead1"] = <<>>
    /\ (~Has(in, "url2") \/ in["url2"] = <<>>) =>
          out["title2"] = <<>> /\ out["img2"] = <<>> /\ out["lead2"] = <<>>

\* C1: enrichment never raises, whether url1 and url2 are present with a value,
\* present and empty, or absent from the table, and afterwards every row has the
\* six derived keys (empty for an absent or empty URL column) and the keys it had.
C1_EnrichmentTotal ==
    last.op = "scrape" =>
        /\ last.result # "raised"
        /\ last.result = "ok" =>
              /\ Len(scraped_data) = Len(csv.rows)
              /\ \A i \in 1..Len(csv.rows) : EnrichedRowOk(csv.rows[i], scraped_data[i])

\* the render of row i fails: the template body does not compile, or the render
\* of the row raised
RenderErrorOn(i) ==
    \/ ~template_ok
    \/ i <= Len(outcomes) /\ outcomes[i] = "render"

GenerateEnded == last.op = "generate" /\ last.result \in {"returned", "raised"}

\* C2: a render error on row i aborts row i only: when process_csv has ended,
\* every row after a row whose render failed has been processed.
C2_RenderErrorAbortsRowOnly ==
    GenerateEnded =>
        \A i \in 1..Len(scraped_data) :
            RenderErrorOn(i) => \A j \in (i + 1)..Len(scraped_data) : j <= Len(ids)

RECURSIVE ArchivesOf(_, _)
ArchivesOf(outs, idents) ==
    IF Len(outs) = 0 THEN <<>>
    ELSE (IF outs[1] = "archived" THEN <<ZipName(idents[1])>> ELSE <<>>)
         \o ArchivesOf(SubSeq(outs, 2, Len(outs)), SubSeq(idents, 2, Len(idents)))

\* C3: once the loop over the rows has started, process_csv always returns a list,
\* the archive names of the rows every step of which succeeded, in row order; no
\* exception leaves it.
C3_ReturnsArchivesOfSucceededRows ==
    (GenerateEnded /\ template_ok) =>
        /\ last.result = "returned"
        /\ Len(outcomes) = Len(scraped_data)
        /\ zip_files = ArchivesOf(outcomes, ids)

\* the value of the naming column of row i in this run, <<>> when it has none
NamingValue(i) ==
    IF run_naming # "" /\ Has(scraped_data[i], run_naming)
    THEN scraped_data[i][run_naming] ELSE <<>>

Overlap(f, g) == f = g \/ IsUnder(f, g) \/ IsUnder(g, f)

InRun == pc = "rows" \/ GenerateEnded

AllDistinctNames ==
    \A i, j \in 1..Len(scraped_data) : i # j => NamingValue(i) # NamingValue(j)

PackagesDisjoint ==
    \A i, j \in 1..Len(ids) :
        i # j => /\ ~Overlap(PackageFolder(ids[i]), PackageFolder(ids[j]))
                 /\ ZipName(ids[i]) # ZipName(ids[j])

NamedAsSpecified ==
    /\ run_naming = "" => \A i \in 1..Len(ids) : ids[i] = Str(i)
    /\ \A i \in 1..Len(ids) : NamingValue(i) # <<>> => ids[i] = NamingValue(i)

\* a plain directory name: no path separator, not "." or ".."
PlainName(v) ==
    /\ \A k \in 1..Len(v) : v[k] # "/"
    /\ v \notin {<<".">>, <<".", ".">>}

\* no row with a value is named like the sequence number of a row without one
NoNumberClash ==
    \A i, j \in 1..Len(scraped_data) :
        NamingValue(i) = <<>> /\ NamingValue(j) # <<>> => NamingValue(j) # Str(i)

\* C4 (as stated): with a naming column whose values are all distinct (one may be
\* empty) the rows get distinct, non-overlapping package directories and distinct
\* archive names; without a naming column the packages are named "1" .. "N"; a
\* non-empty naming value is the package's name.
C4_DistinctNamesDistinctPackages ==
    InRun =>
        /\ (run_naming # "" /\ AllDistinctNames) => PackagesDisjoint
        /\ NamedAsSpecified

\* C4 (amended): the same, for naming values that are also plain directory names
\* none of which is the sequence number of a row whose value is empty.
C4_PlainDistinctNamesDistinctPackages ==
    InRun =>
        /\ (/\ run_naming # ""
            /\ AllDistinctNames
            /\ \A i \in 1..Len(scraped_data) : PlainName(NamingValue(i))
            /\ NoNumberClash) => PackagesDisjoint
        /\ NamedAsSpecified

\* C4, its case: a run over two rows named by a column, one value empty, both
\* rows archived.
C4_Witness ==
    /\ last.op = "generate" /\ last.result = "returned"
    /\ run_naming = "ID"
    /\ Len(ids) = 2
    /\ AllDistinctNames /\ NoNumberClash
    /\ \E i \in 1..2 : NamingValue(i) = <<>>
    /\ \A i \in 1..2 : PlainName(NamingValue(i)) /\ outcomes[i] = "archived"

\* the declared MIME type and the payload of a data URI
MimeOfDataUri(u) == Split(Split(SplitOnce(u, ",")[1], ";")[1], ":")[2]

PayloadOfDataUri(u) == b64decode(SplitOnce(u, ",")[2])

\* C5: save_data_uri_as_file followed by embed_image_as_data_uri on the file it
\* wrote gives a data URI of the original MIME type and the same payload.
C5_RoundTripKeepsMime ==
    /\ rt.pc # "failed"
    /\ rt.pc = "done" =>
          /\ StartsWith(rt.out, DATA)
          /\ MimeOfDataUri(rt.out) = rt.mime
          /\ PayloadOfDataUri(rt.out) = [ok |-> TRUE, bytes |-> rt.payload]

\* inline data of the form data:<mime-type>;base64,<payload>
IsInlineData(v) ==
    /\ StartsWith(v, DATA)
    /\ Len(SplitOnce(v, ",")) = 2
    /\ LET header == Split(SplitOnce(v, ",")[1], ";")
       IN  /\ Len(header) = 2
           /\ header[2] = <<"base64">>
           /\ Len(Split(header[1], "/")) = 2

IsOpaque(v) == ~IsHttpUrl(v) /\ ~IsInlineData(v)

\* C6: for an image column whose value is neither an http(s) URL nor inline data,
\* process_csv fetches nothing, creates no file and renders the value unchanged.
C6_OpaqueIsPassedThrough ==
    pkg.index > 0 =>
        \A k \in 1..Len(ImageCols) :
            LET c == ImageCols[k]
            IN  (Has(pkg.before, c) /\ IsOpaque(pkg.before[c])) =>
                    /\ c \notin pkg.fetched
                    /\ ~\E q \in pkg.created : q[1] = c
                    /\ pkg.after[c] = pkg.before[c]

\* C7: generate_preview never lets an exception escape: a preview in which a
\* fetch (or the render) fails still ends with a document or with None.
C7_PreviewNeverRaises ==
    [][(last'.op = "preview" /\ ops' = ops + 1 /\ faults' > faults)
          => last'.result # "raised"]_vars

\* C8: when process_csv archives a package whose row holds, in an image column, a
\* local file name produced by resolution, that file is in the package's folder
\* (stated for the sessions in which nothing of the environment fails).
C8_PackageSelfContained ==
    (pkg.outcome = "archived" /\ faults = 0) =>
        \A c \in pkg.resolved : Join(pkg.folder, pkg.after[c]) \in pkg.listing

\* C9: when a row's archive is created, the folder's index.html holds the document
\* rendered from that row, not the template body.
C9_EntryIsRenderedDocument ==
    pkg.outcome = "archived" =>
        /\ pkg.entry = Render(pkg.after)
        /\ pkg.entry # TemplateBody

\* C9, its case: the package archived, its image downloaded under the name
\* index.html and then overwritten by the template's copy.
C9_Witness ==
    /\ pkg.outcome = "archived"
    /\ Has(pkg.after, "img1")
    /\ pkg.after["img1"] = INDEX_HTML
    /\ "img1" \in pkg.resolved

\* C10: a preview leaves the rows held in the session as they were.
C10_PreviewLeavesRows ==
    [][(last'.op = "preview" /\ ops' = ops + 1) => scraped_data' = scraped_data]_vars

=============================================================================
